---- MODULE Spec2Model ----
(***************************************************************************)
(* A model of near-primitives' protocol-version registry (version.rs) and  *)
(* of its signature primitives (crypto/signature.rs).                      *)
(*                                                                         *)
(* Three specifications share the module:                                  *)
(*   Spec       the lazily initialised feature->version mappings, the      *)
(*              std::sync::Once protocol behind lazy_static!, and the      *)
(*              checked_feature! gate, run by several threads;             *)
(*   SpecRange  ProtocolVersionRange::new / contains;                      *)
(*   SpecKeys   the byte, text and wire conversions of PublicKey,          *)
(*              SecretKey and Signature.                                   *)
(* Each specification holds the other two components at rest.              *)
(***************************************************************************)
EXTENDS Naturals, Sequences, FiniteSets

VARIABLES
    \* ---- version.rs: build configuration and lazy statics ----
    build,       \* [nightly, feature, stable]: cfg flags and the stable table's entries
    once,        \* static -> state of its std::sync::Once
    cell,        \* static -> [built, map]: the value the Once guards
    initRuns,    \* static -> how many times its initializer was started
    pc,          \* thread -> position
    target,      \* thread -> the static the thread is dereferencing
    initStack,   \* thread -> the statics whose initializers it is running (innermost last)
    arg,         \* thread -> $current_protocol_version of the gate it evaluates
    localMap,    \* thread -> nightly_protocol_features_to_version_mapping (a local)
    iter,        \* thread -> entries of the stable table the for loop has not visited
    calls,       \* thread -> gate evaluations started
    fault,       \* thread -> why it panicked or hung
    results,     \* every finished gate evaluation: [v, outcome]
    seen,        \* every value a reader obtained from PROTOCOL_FEATURES_TO_VERSION_MAPPING
    \* ---- version.rs: ProtocolVersionRange ----
    range,       \* [lower, upper]: the value ProtocolVersionRange::new returned
    query,       \* [asked, version, result]: the last contains() call
    \* ---- crypto/signature.rs ----
    keyIn,       \* [kind, bytes]: the buffer handed to try_from(&[u8])
    keyVal,      \* result of try_from(&[u8])
    keyRaw,      \* [done, bytes]: as_ref() of the value
    keyBack,     \* result of try_from(as_ref(value))
    keyText,     \* [done, text]: String::from(&value)
    keyParsed,   \* result of try_from(&str) on that text
    protoIn,     \* [key_type, data]: a wire message
    protoOut,    \* result of PublicKey::try_from(public_key_proto::PublicKey)
    protoMsg     \* [done, msg]: public_key_proto::PublicKey::from(PublicKey)

initVars  == <<build, once, cell, initRuns, pc, target, initStack, arg, localMap,
               iter, calls, fault, results, seen>>
rangeVars == <<range, query>>
keyVars   == <<keyIn, keyVal, keyRaw, keyBack, keyText, keyParsed,
               protoIn, protoOut, protoMsg>>
vars      == <<initVars, rangeVars, keyVars>>

(***************************************************************************)
(* Bounds of the model.                                                    *)
(***************************************************************************)
NumThreads      == 2   \* threads that evaluate the gate concurrently
MaxCalls        == 1   \* gate evaluations per thread
VersionSlack    == 0   \* protocol versions this far below/above the build's versions
MaxRangeVersion == 12  \* ProtocolVersionRange is exercised on 0..MaxRangeVersion

Threads == 1..NumThreads

(***************************************************************************)
(* version.rs: constants.                                                  *)
(***************************************************************************)
STABLE_PROTOCOL_VERSION  == 41
NIGHTLY_PROTOCOL_VERSION == 42
FORWARD_CHUNK_PARTS_VERSION == 42

ForwardChunkParts == "ForwardChunkParts"

PROTOCOL_VERSION(b) ==
    IF b.nightly THEN NIGHTLY_PROTOCOL_VERSION ELSE STABLE_PROTOCOL_VERSION

\* enum ProtocolFeature: the variant exists only under its feature flag.
ProtocolFeature(b) == IF b.feature THEN {ForwardChunkParts} ELSE {}

Versions ==
    (STABLE_PROTOCOL_VERSION - VersionSlack)..(NIGHTLY_PROTOCOL_VERSION + VersionSlack)

\* HashMap<ProtocolFeature, ProtocolVersion> as a function on the features it holds.
EmptyMap == [f \in {} |-> 0]
MapOf(f, v) == [g \in {f} |-> v]

(***************************************************************************)
(* ProtocolVersionRange.  upper: Option<ProtocolVersion> is                *)
(* [some |-> FALSE, val |-> 0] for None and [some |-> TRUE, val |-> u]     *)
(* for Some(u).                                                            *)
(***************************************************************************)
None == [some |-> FALSE, val |-> 0]
Some(u) == [some |-> TRUE, val |-> u]

ProtocolVersionRange_new(lower, upper) == [lower |-> lower, upper |-> upper]

\* Mutant: the upper bound taken as inclusive.
ContainsUpperInclusive(self, version) ==
    self.lower <= version /\ (IF self.upper.some THEN version <= self.upper.val ELSE TRUE)

\* self.lower <= version && self.upper.map_or(true, |upper| version < upper)
ProtocolVersionRange_contains(self, version) ==
    self.lower <= version /\ (IF self.upper.some THEN version < self.upper.val ELSE TRUE)

RangeVersions == 0..MaxRangeVersion
Uppers == {None} \cup {Some(u) : u \in RangeVersions}

NoQuery == [asked |-> FALSE, version |-> 0, result |-> FALSE]

RangeRest == range = ProtocolVersionRange_new(0, None) /\ query = NoQuery

RangeInit ==
    /\ range \in {ProtocolVersionRange_new(l, u) : l \in RangeVersions, u \in Uppers}
    /\ query = NoQuery

New(l, u) ==
    /\ range' = ProtocolVersionRange_new(l, u)
    /\ query' = NoQuery
    /\ UNCHANGED <<initVars, keyVars>>

Contains(v) ==
    /\ query' = [asked |-> TRUE, version |-> v,
                 result |-> ProtocolVersionRange_contains(range, v)]
    /\ UNCHANGED <<range, initVars, keyVars>>

RangeNext ==
    \/ \E l \in RangeVersions, u \in Uppers : New(l, u)
    \/ \E v \in RangeVersions : Contains(v)

(***************************************************************************)
(* The lazy statics.  lazy_static! guards each static with a               *)
(* std::sync::Once: the first dereference moves it INCOMPLETE -> RUNNING   *)
(* atomically and runs the initializer; the value is stored and the Once   *)
(* becomes COMPLETE; a panic in the initializer leaves it POISONED.        *)
(***************************************************************************)
STABLE   == "STABLE_PROTOCOL_FEATURES_TO_VERSION_MAPPING"
PROTOCOL == "PROTOCOL_FEATURES_TO_VERSION_MAPPING"
Statics  == {STABLE, PROTOCOL}

Unbuilt == [built |-> FALSE, map |-> EmptyMap]
Built(m) == [built |-> TRUE, map |-> m]

\* vec![ /* add mapping here */ ].into_iter().collect(): the entries a build lists.
StableEntries(b) == b.stable

\* vec![(ProtocolFeature::ForwardChunkParts, 42)].into_iter().collect()
NightlyEntries == MapOf(ForwardChunkParts, FORWARD_CHUNK_PARTS_VERSION)

\* The builds that compile: the nightly table names ForwardChunkParts, and a
\* table can only hold variants of the enum.
Builds ==
    { b \in [nightly : BOOLEAN, feature : BOOLEAN,
             stable : {EmptyMap} \cup {MapOf(ForwardChunkParts, s) : s \in Versions}] :
        /\ b.nightly => b.feature
        /\ DOMAIN b.stable \subseteq ProtocolFeature(b) }

\* The mapping a finished construction is meant to publish.
FullMapping(b) == IF b.nightly THEN NightlyEntries ELSE StableEntries(b)

\* The assert! of the nightly initializer, over the two tables.
OrderingHolds(b) ==
    \A f \in DOMAIN StableEntries(b) :
        f \in DOMAIN NightlyEntries /\ NightlyEntries[f] >= StableEntries(b)[f]

Top(s) == s[Len(s)]
Pop(s) == SubSeq(s, 1, Len(s) - 1)
InStack(m, s) == \E i \in 1..Len(s) : s[i] = m

\* Mutant: no exclusion: a caller that finds the Once RUNNING runs the initializer too.
OnceMayRunUnsynchronized(st) == st \in {"INCOMPLETE", "RUNNING"}

\* call_once runs the closure only for the caller whose compare-exchange
\* moved the Once from INCOMPLETE to RUNNING.
OnceMayRun(st) == st = "INCOMPLETE"

\* A dereference returns the value only once the Once is COMPLETE.
OnceMayRead(st) == st = "COMPLETE"

\* Mutant: the cfg is ignored and the gate always consults the mapping.
FeatureAlwaysCompiled(b) == TRUE

\* #[cfg(feature = $feature_name)]
FeatureCompiled(b) == b.feature

\* PROTOCOL_FEATURES_TO_VERSION_MAPPING[&ProtocolFeature::$feature] <= $current_protocol_version
GateValue(map, v) == map[ForwardChunkParts] <= v

Outcome(b) == IF b THEN "true" ELSE "false"

InitRest ==
    /\ build = [nightly |-> FALSE, feature |-> FALSE, stable |-> EmptyMap]
    /\ once = [m \in Statics |-> "INCOMPLETE"]
    /\ cell = [m \in Statics |-> Unbuilt]
    /\ initRuns = [m \in Statics |-> 0]
    /\ pc = [t \in Threads |-> "idle"]
    /\ target = [t \in Threads |-> PROTOCOL]
    /\ initStack = [t \in Threads |-> <<>>]
    /\ arg = [t \in Threads |-> 0]
    /\ localMap = [t \in Threads |-> EmptyMap]
    /\ iter = [t \in Threads |-> {}]
    /\ calls = [t \in Threads |-> 0]
    /\ fault = [t \in Threads |-> "none"]
    /\ results = {}
    /\ seen = {}

InitInit ==
    /\ build \in Builds
    /\ once = [m \in Statics |-> "INCOMPLETE"]
    /\ cell = [m \in Statics |-> Unbuilt]
    /\ initRuns = [m \in Statics |-> 0]
    /\ pc = [t \in Threads |-> "idle"]
    /\ target = [t \in Threads |-> PROTOCOL]
    /\ initStack = [t \in Threads |-> <<>>]
    /\ arg = [t \in Threads |-> 0]
    /\ localMap = [t \in Threads |-> EmptyMap]
    /\ iter = [t \in Threads |-> {}]
    /\ calls = [t \in Threads |-> 0]
    /\ fault = [t \in Threads |-> "none"]
    /\ results = {}
    /\ seen = {}

\* A panic unwinds the thread: every initializer it was running drops its
\* guard, which poisons the Once; the gate evaluation ends without a value
\* and its frame is gone.
Panic(t, why) ==
    /\ arg' = [arg EXCEPT ![t] = 0]
    /\ once' = [m \in Statics |-> IF InStack(m, initStack[t]) THEN "POISONED" ELSE once[m]]
    /\ initStack' = [initStack EXCEPT ![t] = <<>>]
    /\ pc' = [pc EXCEPT ![t] = "panicked"]
    /\ fault' = [fault EXCEPT ![t] = why]
    /\ results' = results \cup {[v |-> arg[t], outcome |-> "abort"]}

\* checked_feature!, #[cfg(not(feature = $feature_name))]: the constant false.
GateDisabled(t, v) ==
    /\ pc[t] = "idle"
    /\ calls[t] < MaxCalls
    /\ ~FeatureCompiled(build)
    /\ calls' = [calls EXCEPT ![t] = @ + 1]
    /\ results' = results \cup {[v |-> v, outcome |-> Outcome(FALSE)]}
    /\ UNCHANGED <<build, once, cell, initRuns, pc, target, initStack, arg, localMap,
                   iter, fault, seen, rangeVars, keyVars>>

\* checked_feature!, #[cfg(feature = $feature_name)]: dereference the mapping.
GateEnabled(t, v) ==
    /\ pc[t] = "idle"
    /\ calls[t] < MaxCalls
    /\ FeatureCompiled(build)
    /\ calls' = [calls EXCEPT ![t] = @ + 1]
    /\ arg' = [arg EXCEPT ![t] = v]
    /\ target' = [target EXCEPT ![t] = PROTOCOL]
    /\ pc' = [pc EXCEPT ![t] = "call_once"]
    /\ UNCHANGED <<build, once, cell, initRuns, initStack, localMap, iter,
                   fault, results, seen, rangeVars, keyVars>>

\* Once::call_once, state COMPLETE (also a waiter woken by the initializer).
OnceComplete(t) ==
    /\ pc[t] = "call_once"
    /\ OnceMayRead(once[target[t]])
    /\ pc' = [pc EXCEPT ![t] = "got"]
    /\ UNCHANGED <<build, once, cell, initRuns, target, initStack, arg,
                   localMap, iter, calls, fault, results, seen, rangeVars,
                   keyVars>>

\* Once::call_once, state INCOMPLETE: this caller becomes the initializer.
OnceAcquire(t) ==
    /\ pc[t] = "call_once"
    /\ ~OnceMayRead(once[target[t]])
    /\ OnceMayRun(once[target[t]])
    /\ once' = [once EXCEPT ![target[t]] = "RUNNING"]
    /\ initRuns' = [initRuns EXCEPT ![target[t]] = @ + 1]
    /\ initStack' = [initStack EXCEPT ![t] = Append(@, target[t])]
    /\ pc' = [pc EXCEPT ![t] = "init"]
    /\ UNCHANGED <<build, cell, target, arg, localMap, iter, calls, fault,
                   results, seen, rangeVars, keyVars>>

\* Once::call_once, state POISONED: "Once instance has previously been poisoned".
OncePoisoned(t) ==
    /\ pc[t] = "call_once"
    /\ once[target[t]] = "POISONED"
    /\ Panic(t, "Poisoned")
    /\ UNCHANGED <<build, cell, initRuns, target, localMap, iter, calls, seen,
                   rangeVars, keyVars>>

\* Once::call_once on a Once whose initializer this very thread is running:
\* std leaves the outcome open between a deadlock and a panic.
OnceReenter(t) ==
    /\ pc[t] = "call_once"
    /\ once[target[t]] = "RUNNING"
    /\ InStack(target[t], initStack[t])
    /\ \/ /\ pc' = [pc EXCEPT ![t] = "deadlocked"]
          /\ fault' = [fault EXCEPT ![t] = "Reentrant"]
          /\ UNCHANGED <<once, initStack, results, arg>>
       \/ Panic(t, "Reentrant")
    /\ UNCHANGED <<build, cell, initRuns, target, localMap, iter, calls, seen,
                   rangeVars, keyVars>>

\* STABLE_PROTOCOL_FEATURES_TO_VERSION_MAPPING's initializer: collect the
\* listed entries; the Once stores the value and completes.
InitStable(t) ==
    /\ pc[t] = "init"
    /\ Top(initStack[t]) = STABLE
    /\ cell' = [cell EXCEPT ![STABLE] = Built(StableEntries(build))]
    /\ once' = [once EXCEPT ![STABLE] = "COMPLETE"]
    /\ initStack' = [initStack EXCEPT ![t] = Pop(@)]
    /\ pc' = [pc EXCEPT ![t] = "got"]
    /\ UNCHANGED <<build, initRuns, target, arg, localMap, iter, calls, fault,
                   results, seen, rangeVars, keyVars>>

\* PROTOCOL_FEATURES_TO_VERSION_MAPPING's initializer, up to its dereference
\* of the stable table: the nightly build first collects its own entries.
InitProtocol(t) ==
    /\ pc[t] = "init"
    /\ Top(initStack[t]) = PROTOCOL
    /\ localMap' = [localMap EXCEPT ![t] = IF build.nightly THEN NightlyEntries ELSE @]
    /\ target' = [target EXCEPT ![t] = STABLE]
    /\ pc' = [pc EXCEPT ![t] = "call_once"]
    /\ UNCHANGED <<build, once, cell, initRuns, initStack, arg, iter, calls,
                   fault, results, seen, rangeVars, keyVars>>

\* Stable build: STABLE_PROTOCOL_FEATURES_TO_VERSION_MAPPING.clone() is the
\* value; the Once stores it and completes.
CloneStable(t) ==
    /\ pc[t] = "got"
    /\ target[t] = STABLE
    /\ ~build.nightly
    /\ cell' = [cell EXCEPT ![PROTOCOL] = Built(cell[STABLE].map)]
    /\ once' = [once EXCEPT ![PROTOCOL] = "COMPLETE"]
    /\ initStack' = [initStack EXCEPT ![t] = Pop(@)]
    /\ target' = [target EXCEPT ![t] = PROTOCOL]
    /\ UNCHANGED <<build, initRuns, pc, arg, localMap, iter, calls, fault,
                   results, seen, rangeVars, keyVars>>

\* Nightly build: STABLE_PROTOCOL_FEATURES_TO_VERSION_MAPPING.iter()
IterStable(t) ==
    /\ pc[t] = "got"
    /\ target[t] = STABLE
    /\ build.nightly
    /\ iter' = [iter EXCEPT ![t] = DOMAIN cell[STABLE].map]
    /\ pc' = [pc EXCEPT ![t] = "for"]
    /\ UNCHANGED <<build, once, cell, initRuns, target, initStack, arg,
                   localMap, calls, fault, results, seen, rangeVars, keyVars>>

\* The for loop's body: the assert! indexes PROTOCOL_FEATURES_TO_VERSION_MAPPING,
\* the static under construction, so the thread calls into its Once again.
ForBody(t) ==
    /\ pc[t] = "for"
    /\ iter[t] # {}
    /\ \E f \in iter[t] : iter' = [iter EXCEPT ![t] = @ \ {f}]
    /\ target' = [target EXCEPT ![t] = PROTOCOL]
    /\ pc' = [pc EXCEPT ![t] = "call_once"]
    /\ UNCHANGED <<build, once, cell, initRuns, initStack, arg, localMap, calls,
                   fault, results, seen, rangeVars, keyVars>>

\* The loop is over: nightly_protocol_features_to_version_mapping is moved
\* out as the value; the Once stores it and completes.
ForDone(t) ==
    /\ pc[t] = "for"
    /\ iter[t] = {}
    /\ cell' = [cell EXCEPT ![PROTOCOL] = Built(localMap[t])]
    /\ once' = [once EXCEPT ![PROTOCOL] = "COMPLETE"]
    /\ initStack' = [initStack EXCEPT ![t] = Pop(@)]
    /\ target' = [target EXCEPT ![t] = PROTOCOL]
    /\ localMap' = [localMap EXCEPT ![t] = EmptyMap]
    /\ pc' = [pc EXCEPT ![t] = "got"]
    /\ UNCHANGED <<build, initRuns, arg, iter, calls, fault, results, seen,
                   rangeVars, keyVars>>

\* The gate holds the mapping: HashMap's Index panics on a missing key,
\* otherwise the comparison is the gate's value.
GateIndex(t) ==
    /\ pc[t] = "got"
    /\ target[t] = PROTOCOL
    /\ initStack[t] = <<>>
    /\ seen' = seen \cup {cell[PROTOCOL]}
    /\ \/ /\ ForwardChunkParts \notin DOMAIN cell[PROTOCOL].map
          /\ Panic(t, "NoEntry")
       \/ /\ ForwardChunkParts \in DOMAIN cell[PROTOCOL].map
          /\ results' = results \cup
                {[v |-> arg[t], outcome |-> Outcome(GateValue(cell[PROTOCOL].map, arg[t]))]}
          /\ pc' = [pc EXCEPT ![t] = "idle"]
          /\ arg' = [arg EXCEPT ![t] = 0]
          /\ UNCHANGED <<once, initStack, fault>>
    /\ UNCHANGED <<build, cell, initRuns, target, localMap, iter, calls,
                   rangeVars, keyVars>>

InitNext ==
    \E t \in Threads :
        \/ \E v \in Versions : GateDisabled(t, v)
        \/ \E v \in Versions : GateEnabled(t, v)
        \/ OnceComplete(t)
        \/ OnceAcquire(t)
        \/ OncePoisoned(t)
        \/ OnceReenter(t)
        \/ InitStable(t)
        \/ InitProtocol(t)
        \/ CloneStable(t)
        \/ IterStable(t)
        \/ ForBody(t)
        \/ ForDone(t)
        \/ GateIndex(t)

(***************************************************************************)
(* crypto/signature.rs.  A key or signature is its fixed-size byte array;  *)
(* a Result is [tag, kind, bytes, err] with tag "Ok" or "Err" ("Unset"     *)
(* before the conversion ran).                                             *)
(***************************************************************************)
MaxBufLen == 65   \* try_from is exercised on buffers of 0..MaxBufLen bytes

PUBLICKEYBYTES == 32
SECRETKEYBYTES == 64
SIGNATUREBYTES == 64

Kinds == {"PublicKey", "SecretKey", "Signature"}

Ok(kind, bytes) == [tag |-> "Ok", kind |-> kind, bytes |-> bytes, err |-> ""]
Err(kind, e)    == [tag |-> "Err", kind |-> kind, bytes |-> <<>>, err |-> e]
Unset           == [tag |-> "Unset", kind |-> "", bytes |-> <<>>, err |-> ""]

\* let mut array = [0; N]; array.copy_from_slice(bytes)
CopyFromSlice(n, bytes) == [i \in 1..n |-> bytes[i]]

\* Mutant: only a short buffer is refused; a long one is cut to the array.
PublicKey_try_from_Truncating(bytes) ==
    IF Len(bytes) < PUBLICKEYBYTES
    THEN Err("PublicKey", "SizeMismatch")
    ELSE Ok("PublicKey", CopyFromSlice(PUBLICKEYBYTES, bytes))

\* impl TryFrom<&[u8]> for PublicKey
PublicKey_try_from(bytes) ==
    IF Len(bytes) # PUBLICKEYBYTES
    THEN Err("PublicKey", "SizeMismatch")
    ELSE Ok("PublicKey", CopyFromSlice(PUBLICKEYBYTES, bytes))

\* impl TryFrom<&[u8]> for SecretKey
SecretKey_try_from(bytes) ==
    IF Len(bytes) # SECRETKEYBYTES
    THEN Err("SecretKey", "SizeMismatch")
    ELSE Ok("SecretKey", CopyFromSlice(SECRETKEYBYTES, bytes))

\* impl TryFrom<&[u8]> for Signature
Signature_try_from(bytes) ==
    IF Len(bytes) # SIGNATUREBYTES
    THEN Err("Signature", "SizeMismatch")
    ELSE Ok("Signature", CopyFromSlice(SIGNATUREBYTES, bytes))

try_from(kind, bytes) ==
    CASE kind = "PublicKey" -> PublicKey_try_from(bytes)
      [] kind = "SecretKey" -> SecretKey_try_from(bytes)
      [] kind = "Signature" -> Signature_try_from(bytes)

\* impl AsRef<[u8]>: &self.0[..]
as_ref(x) == x.bytes

(***************************************************************************)
(* The text codec, crate::serialize::{to_base, from_base}: base58 over the *)
(* Bitcoin alphabet.  A text is a sequence of one-character strings.       *)
(***************************************************************************)
Alphabet ==
    << "1", "2", "3", "4", "5", "6", "7", "8", "9",
       "A", "B", "C", "D", "E", "F", "G", "H", "J", "K", "L", "M", "N", "P", "Q",
       "R", "S", "T", "U", "V", "W", "X", "Y", "Z",
       "a", "b", "c", "d", "e", "f", "g", "h", "i", "j", "k", "m", "n", "o", "p",
       "q", "r", "s", "t", "u", "v", "w", "x", "y", "z" >>

Radix == Len(Alphabet)
ByteRadix == 256

\* The little-endian digits of carry in radix `to` (carry is below to^3).
CarryDigits(carry, to) ==
    IF carry = 0 THEN <<>>
    ELSE IF carry < to THEN <<carry>>
    ELSE IF carry < to * to THEN <<carry % to, carry \div to>>
    ELSE <<carry % to, (carry \div to) % to, carry \div (to * to)>>

RECURSIVE Pass(_, _, _, _, _, _)
\* One pass of the inner loop over digits[lo..hi]: digit := (carry + digit * from) % to,
\* carry := (carry + digit * from) / to.  [out, carry] after the last digit.
\* (Intermediate results are bound through singleton sets, which makes TLC
\* compute each of them once.)
Pass(digits, lo, hi, carry, from, to) ==
    IF lo > hi THEN [out |-> <<>>, carry |-> carry]
    ELSE IF lo = hi
    THEN CHOOSE r \in { [out |-> <<x % to>>, carry |-> x \div to] :
                        x \in {carry + digits[lo] * from} } : TRUE
    ELSE CHOOSE r \in
           { [out |-> lr[1].out \o lr[2].out, carry |-> lr[2].carry] :
             lr \in UNION { { <<left, right>> :
                              right \in {Pass(digits, ((lo + hi) \div 2) + 1, hi,
                                              left.carry, from, to)} } :
                            left \in {Pass(digits, lo, (lo + hi) \div 2, carry, from, to)} }
           } : TRUE

\* The little-endian digits, in radix `to`, of digits * from + carry.
MulAdd(digits, carry, from, to) ==
    CHOOSE r \in { p.out \o CarryDigits(p.carry, to) :
                   p \in {Pass(digits, 1, Len(digits), carry, from, to)} } : TRUE

RECURSIVE Rebase(_, _, _, _, _, _)
\* The outer loop over input[lo..hi] (big-endian, radix `from`), accumulating
\* little-endian digits in radix `to`.
Rebase(input, lo, hi, acc, from, to) ==
    IF lo > hi THEN acc
    ELSE IF lo = hi THEN MulAdd(acc, input[lo], from, to)
    ELSE CHOOSE r \in
           { Rebase(input, ((lo + hi) \div 2) + 1, hi, a, from, to) :
             a \in {Rebase(input, lo, (lo + hi) \div 2, acc, from, to)} } : TRUE

\* input.iter().take_while(|v| **v == z).count()
LeadingCount(s, z) ==
    Cardinality({k \in 1..Len(s) : \A i \in 1..k : s[i] = z})

Reverse(s) == [i \in 1..Len(s) |-> s[Len(s) + 1 - i]]
Repeat(x, n) == [i \in 1..n |-> x]

to_base(bytes) ==
    LET digits == Rebase(bytes, 1, Len(bytes), <<>>, ByteRadix, Radix) \o Repeat(0, LeadingCount(bytes, 0))
        text   == [i \in 1..Len(digits) |-> Alphabet[digits[i] + 1]]
    IN  Reverse(text)

CharValue(c) == CHOOSE d \in 0..(Radix - 1) : Alphabet[d + 1] = c
ValidText(s) == \A i \in 1..Len(s) : \E d \in 1..Radix : Alphabet[d] = s[i]

\* [ok, bytes]: Err on a character outside the alphabet.
from_base(s) ==
    IF ~ValidText(s) THEN [ok |-> FALSE, bytes |-> <<>>]
    ELSE LET vals  == [i \in 1..Len(s) |-> CharValue(s[i])]
             bytes == Rebase(vals, 1, Len(vals), <<>>, Radix, ByteRadix) \o Repeat(0, LeadingCount(vals, 0))
         IN  [ok |-> TRUE, bytes |-> Reverse(bytes)]

\* Mutant: the decoded bytes are never copied into the array, which stays zeroed.
PublicKey_try_from_str_NoCopy(s) ==
    LET dec == from_base(s) IN
    IF ~dec.ok THEN Err("PublicKey", "DecodeError")
    ELSE IF Len(dec.bytes) # PUBLICKEYBYTES THEN Err("PublicKey", "SizeMismatch")
    ELSE Ok("PublicKey", Repeat(0, PUBLICKEYBYTES))

\* impl TryFrom<&str> for PublicKey
PublicKey_try_from_str(s) ==
    LET dec == from_base(s) IN
    IF ~dec.ok THEN Err("PublicKey", "DecodeError")
    ELSE IF Len(dec.bytes) # PUBLICKEYBYTES THEN Err("PublicKey", "SizeMismatch")
    ELSE Ok("PublicKey", CopyFromSlice(PUBLICKEYBYTES, SubSeq(dec.bytes, 1, PUBLICKEYBYTES)))

\* impl TryFrom<&str> for SecretKey
SecretKey_try_from_str(s) ==
    LET dec == from_base(s) IN
    IF ~dec.ok THEN Err("SecretKey", "DecodeError")
    ELSE IF Len(dec.bytes) # SECRETKEYBYTES THEN Err("SecretKey", "SizeMismatch")
    ELSE Ok("SecretKey", CopyFromSlice(SECRETKEYBYTES, SubSeq(dec.bytes, 1, SECRETKEYBYTES)))

\* impl TryFrom<&str> for Signature
Signature_try_from_str(s) ==
    LET dec == from_base(s) IN
    IF ~dec.ok THEN Err("Signature", "DecodeError")
    ELSE IF Len(dec.bytes) # SIGNATUREBYTES THEN Err("Signature", "SizeMismatch")
    ELSE Ok("Signature", CopyFromSlice(SIGNATUREBYTES, SubSeq(dec.bytes, 1, SIGNATUREBYTES)))

try_from_str(kind, s) ==
    CASE kind = "PublicKey" -> PublicKey_try_from_str(s)
      [] kind = "SecretKey" -> SecretKey_try_from_str(s)
      [] kind = "Signature" -> Signature_try_from_str(s)

\* impl From<&PublicKey> / From<&SecretKey> / From<&Signature> for String
String_from(x) == to_base(as_ref(x))

(***************************************************************************)
(* The wire message public_key_proto::PublicKey {key_type, data}.          *)
(***************************************************************************)
ED25519 == "ED25519"
\* The tags a message can carry: the supported one, and any other.
KeyTypes == {ED25519, "UNSUPPORTED"}

\* impl TryFrom<public_key_proto::PublicKey> for PublicKey: p.key_type is not read.
PublicKey_try_from_proto(p) == PublicKey_try_from(p.data)

\* impl From<PublicKey> for public_key_proto::PublicKey
Proto_from_PublicKey(x) == [key_type |-> ED25519, data |-> as_ref(x)]

\* The buffers the conversions are run on: every length up to MaxBufLen, filled
\* with byte i = seed + step * i (mod 256): all zero, all 0xFF, leading zero
\* bytes, and mixed contents.
Seeds == {0, 1, 255}
Steps == {0, 1, 7}
Buffer(n, seed, step) == [i \in 1..n |-> (seed + step * (i - 1)) % ByteRadix]
Buffers == {Buffer(n, a, b) : n \in 0..MaxBufLen, a \in Seeds, b \in Steps}

NoBytes == [done |-> FALSE, bytes |-> <<>>]
NoText  == [done |-> FALSE, text |-> <<>>]
NoMsg   == [done |-> FALSE, msg |-> [key_type |-> ED25519, data |-> <<>>]]

KeysRest ==
    /\ keyIn = [kind |-> "PublicKey", bytes |-> <<>>]
    /\ protoIn = [key_type |-> ED25519, data |-> <<>>]
    /\ keyVal = Unset /\ keyBack = Unset /\ keyParsed = Unset /\ protoOut = Unset
    /\ keyRaw = NoBytes /\ keyText = NoText /\ protoMsg = NoMsg

KeysInit ==
    /\ keyIn \in [kind : Kinds, bytes : Buffers]
    /\ protoIn \in [key_type : KeyTypes, data : {keyIn.bytes}]
    /\ keyVal = Unset /\ keyBack = Unset /\ keyParsed = Unset /\ protoOut = Unset
    /\ keyRaw = NoBytes /\ keyText = NoText /\ protoMsg = NoMsg

\* try_from(&[u8]) on the input buffer.
TryFromBytes ==
    /\ keyVal = Unset
    /\ keyVal' = try_from(keyIn.kind, keyIn.bytes)
    /\ UNCHANGED <<keyIn, keyRaw, keyBack, keyText, keyParsed, protoIn, protoOut,
                   protoMsg, initVars, rangeVars>>

\* as_ref() of the value.
AsRef ==
    /\ keyVal.tag = "Ok"
    /\ ~keyRaw.done
    /\ keyRaw' = [done |-> TRUE, bytes |-> as_ref(keyVal)]
    /\ UNCHANGED <<keyIn, keyVal, keyBack, keyText, keyParsed, protoIn, protoOut,
                   protoMsg, initVars, rangeVars>>

\* try_from(&[u8]) on the value's own bytes.
TryFromRaw ==
    /\ keyRaw.done
    /\ keyBack = Unset
    /\ keyBack' = try_from(keyVal.kind, keyRaw.bytes)
    /\ UNCHANGED <<keyIn, keyVal, keyRaw, keyText, keyParsed, protoIn, protoOut,
                   protoMsg, initVars, rangeVars>>

\* String::from(&value), the canonical text.
ToString ==
    /\ keyVal.tag = "Ok"
    /\ ~keyText.done
    /\ keyText' = [done |-> TRUE, text |-> String_from(keyVal)]
    /\ UNCHANGED <<keyIn, keyVal, keyRaw, keyBack, keyParsed, protoIn, protoOut,
                   protoMsg, initVars, rangeVars>>

\* try_from(&str) on the canonical text.
TryFromStr ==
    /\ keyText.done
    /\ keyParsed = Unset
    /\ keyParsed' = try_from_str(keyVal.kind, keyText.text)
    /\ UNCHANGED <<keyIn, keyVal, keyRaw, keyBack, keyText, protoIn, protoOut,
                   protoMsg, initVars, rangeVars>>

\* PublicKey::try_from(public_key_proto::PublicKey) on the wire message.
TryFromProto ==
    /\ protoOut = Unset
    /\ protoOut' = PublicKey_try_from_proto(protoIn)
    /\ UNCHANGED <<keyIn, keyVal, keyRaw, keyBack, keyText, keyParsed, protoIn,
                   protoMsg, initVars, rangeVars>>

\* public_key_proto::PublicKey::from(PublicKey)
IntoProto ==
    /\ keyVal.tag = "Ok"
    /\ keyVal.kind = "PublicKey"
    /\ ~protoMsg.done
    /\ protoMsg' = [done |-> TRUE, msg |-> Proto_from_PublicKey(keyVal)]
    /\ UNCHANGED <<keyIn, keyVal, keyRaw, keyBack, keyText, keyParsed, protoIn,
                   protoOut, initVars, rangeVars>>

KeysNext ==
    \/ TryFromBytes
    \/ AsRef
    \/ TryFromRaw
    \/ ToString
    \/ TryFromStr
    \/ TryFromProto
    \/ IntoProto

Init == InitInit /\ RangeRest /\ KeysRest
Next == InitNext
Spec == Init /\ [][Next]_vars

InitForRange == RangeInit /\ InitRest /\ KeysRest
NextForRange == RangeNext
SpecRange == InitForRange /\ [][NextForRange]_vars

InitForKeys == KeysInit /\ InitRest /\ RangeRest
NextForKeys == KeysNext
SpecKeys == InitForKeys /\ [][NextForKeys]_vars
(***************************************************************************)
(* Properties.                                                             *)
(***************************************************************************)

\* C1: contains(v) is true exactly when lower <= v and (upper is absent or
\* v < upper); new(5, Some(10)) contains exactly 5..9, and a range with no
\* upper bound contains every v >= lower.
C1_ContainsHalfOpen ==
    query.asked =>
        /\ query.result <=>
              /\ range.lower <= query.version
              /\ (range.upper = None \/ query.version < range.upper.val)
        /\ range = ProtocolVersionRange_new(5, Some(10)) =>
              (query.result <=> query.version \in 5..9)
        /\ range.upper = None => (query.result <=> query.version >= range.lower)

\* The version equal to the exclusive upper bound was asked for and refused.
C1_Witness ==
    /\ query.asked
    /\ range = ProtocolVersionRange_new(5, Some(10))
    /\ query.version = 10
    /\ ~query.result

\* C2: under concurrent first access the initializer of each static starts at
\* most once, every reader obtains the fully built mapping, a completed
\* mapping holds the full mapping, and once completed it never changes.
C2_InitOnce ==
    /\ [](/\ \A m \in Statics : initRuns[m] <= 1
          /\ \A x \in seen : x = Built(FullMapping(build))
          /\ once[PROTOCOL] = "COMPLETE" => cell[PROTOCOL] = Built(FullMapping(build)))
    /\ [][once[PROTOCOL] = "COMPLETE" =>
            (once'[PROTOCOL] = "COMPLETE" /\ cell'[PROTOCOL] = cell[PROTOCOL])]_vars

\* Every thread is inside its first gate evaluation and holds the mapping,
\* which is non-empty and was constructed once.
C2_Witness ==
    /\ \A t \in Threads :
          pc[t] = "got" /\ target[t] = PROTOCOL /\ initStack[t] = <<>> /\ calls[t] = 1
    /\ initRuns[PROTOCOL] = 1
    /\ cell[PROTOCOL] = Built(FullMapping(build))
    /\ FullMapping(build) # EmptyMap

\* C3 (as claimed): a wire message whose key_type is not ED25519 is rejected,
\* whatever its data.
C3_RejectsUnsupportedKeyType ==
    (protoOut.tag # "Unset" /\ protoIn.key_type # ED25519) => protoOut.tag = "Err"

\* C4: try_from(&[u8]) fails and builds no value when the buffer's length is
\* not the type's fixed size (32, 64, 64), and for a buffer of exactly that
\* size succeeds with the input's bytes verbatim.
C4_SizeValidation ==
    keyVal.tag # "Unset" =>
        LET size == CASE keyIn.kind = "PublicKey" -> 32
                      [] keyIn.kind = "SecretKey" -> 64
                      [] keyIn.kind = "Signature" -> 64
        IN  IF Len(keyIn.bytes) = size
            THEN /\ keyVal.tag = "Ok"
                 /\ keyVal.kind = keyIn.kind
                 /\ Len(keyVal.bytes) = size
                 /\ \A i \in 1..size : keyVal.bytes[i] = keyIn.bytes[i]
            ELSE keyVal.tag = "Err" /\ keyVal.bytes = <<>>

\* A buffer one byte longer than a public key was refused.
C4_Witness ==
    /\ keyIn.kind = "PublicKey"
    /\ Len(keyIn.bytes) = PUBLICKEYBYTES + 1
    /\ keyVal.tag = "Err"

\* C5: for a fixed build, gate evaluations at the same protocol version end
\* the same way; without the feature's build flag every evaluation is false
\* and the mapping is never touched.
C5_GateDeterministic ==
    /\ \A r1 \in results, r2 \in results : r1.v = r2.v => r1.outcome = r2.outcome
    /\ ~build.feature =>
          /\ \A r \in results : r.outcome = "false"
          /\ \A m \in Statics : once[m] = "INCOMPLETE" /\ initRuns[m] = 0

\* Every thread evaluated the enabled gate at the same version, one of them
\* constructing the mapping on the way, and all got true.
C5_Witness ==
    /\ build.feature
    /\ \A t \in Threads : calls[t] = 1 /\ pc[t] = "idle"
    /\ initRuns[PROTOCOL] = 1
    /\ results = {[v |-> NIGHTLY_PROTOCOL_VERSION, outcome |-> "true"]}

\* C6 (as claimed): the gate always yields a boolean: with the flag on, true
\* exactly when the feature's activation version is <= v, and false, not a
\* fatal failure, when the mapping has no entry for the feature.
C6_GateTotal ==
    /\ \A t \in Threads : fault[t] # "NoEntry"
    /\ \A r \in results :
          r.outcome # "abort" =>
             r.outcome = Outcome(/\ build.feature
                                 /\ ForwardChunkParts \in DOMAIN FullMapping(build)
                                 /\ FullMapping(build)[ForwardChunkParts] <= r.v)

\* C7: try_from(as_ref(x)) = x, and try_from(&str) of x's canonical text = x.
C7_RoundTrip ==
    /\ keyBack.tag # "Unset" => keyBack = keyVal
    /\ keyParsed.tag # "Unset" => keyParsed = keyVal

\* A signature with non-zero bytes went through both round trips.
C7_Witness ==
    /\ keyVal.tag = "Ok"
    /\ keyVal.kind = "Signature"
    /\ keyVal.bytes[1] = 255
    /\ keyBack = keyVal
    /\ keyParsed = keyVal

====
